---- MODULE Spec2Model ----
(***************************************************************************)
(* domake: translation of a `Dofile` into a `Makefile` (src/main.rs).      *)
(*                                                                         *)
(* A Rust String is modelled as a sequence of one-character strings, so    *)
(* that the regular expressions, split, trim and format! of the source act *)
(* on characters.                                                          *)
(***************************************************************************)
EXTENDS Naturals, Sequences, FiniteSets

(***************************************************************************)
(* Bounds of the model.                                                    *)
(***************************************************************************)
\* a Dofile of the model is the concatenation of at most MaxParts fragments
MaxParts == 4

(***************************************************************************)
(* Characters.                                                             *)
(***************************************************************************)
LF == "\n"
CR == "\r"
TAB == "\t"
SP == " "

\* [[:print:]] is 0x20..0x7E: of the characters of the model, all but these
IsPrint(c) == c \notin {LF, CR, TAB}

\* char::is_whitespace, on the characters of the model (str::trim)
IsWhitespace(c) == c \in {SP, LF, CR, TAB}

NoMatch == [matched |-> FALSE]

\* first position at or after p holding no printable character:
\* the end of the greedy run [[:print:]]* from p
RECURSIVE PrintRunEnd(_, _)
PrintRunEnd(s, p) ==
    IF p <= Len(s) /\ IsPrint(s[p]) THEN PrintRunEnd(s, p + 1) ELSE p

\* length of the match of (?:\r\n|\n) at p, 0 when there is none
NlLen(s, p) ==
    IF p + 1 <= Len(s) /\ s[p] = CR /\ s[p + 1] = LF THEN 2
    ELSE IF p <= Len(s) /\ s[p] = LF THEN 1
    ELSE 0

\* the text s[from .. to-1]
Slice(s, from, to) == SubSeq(s, from, to - 1)

\* the least of a set of positions
Leftmost(ps) == CHOOSE q \in ps : \A r \in ps : q <= r

\* whether the literal lit stands at p
LitAt(s, p, lit) ==
    /\ p + Len(lit) - 1 <= Len(s)
    /\ \A i \in 1..Len(lit) : s[p + i - 1] = lit[i]

(***************************************************************************)
(* re_includes: include (?<include>[[:print:]]+)                           *)
(***************************************************************************)
IncludeLit == <<"i", "n", "c", "l", "u", "d", "e", SP>>

\* the match that starts at p, if any: the group is greedy and last, so it
\* runs to the end of the printable run
IncludeGroup(s, p, g, e) ==
    IF LitAt(s, p, IncludeLit) /\ e > g
    THEN [matched |-> TRUE, start |-> p, end |-> e, include |-> Slice(s, g, e)]
    ELSE NoMatch

IncludeMatchAt(s, p) ==
    IncludeGroup(s, p, p + Len(IncludeLit), PrintRunEnd(s, p + Len(IncludeLit)))

\* captures_iter: the leftmost match at or after p, then on from its end
RECURSIVE IncludeMatches(_, _)
IncludeNext(s, m) == <<m>> \o IncludeMatches(s, m.end)

IncludeFrom(s, starts) ==
    IF starts = {} THEN <<>> ELSE IncludeNext(s, IncludeMatchAt(s, Leftmost(starts)))

IncludeMatches(s, p) == IncludeFrom(s, {q \in p..Len(s) : IncludeMatchAt(s, q).matched})

(***************************************************************************)
(* re_commands:                                                            *)
(*   (?<name>\[[[:print:]]+])(?:\r\n|\n)?(?<prior_commands>[[:print:]]+)?  *)
(*   (?:\r\n|\n)(?<description>#[[:print:]]+)(?:\r\n|\n)                   *)
(*   (?<instructions>(?:[[:print:]]+(?:\r\n|\n)?)+)                        *)
(* The regex crate gives the leftmost match and, at one start, the match   *)
(* the priorities of a backtracking search would find first: a greedy      *)
(* repetition is tried longest first, an optional group present first.     *)
(***************************************************************************)

\* (?<instructions>(?:[[:print:]]+(?:\r\n|\n)?)+) from p: the end of the
\* match, or p when no printable character stands at p (no match).  It is
\* the last element of the regex, so the greedy choice is never undone.
\* e is the end of the printable run from p.
RECURSIVE InstructionsEnd(_, _)
InstructionsRun(s, p, e) ==
    IF e = p THEN p ELSE InstructionsEnd(s, e + NlLen(s, e))

InstructionsEnd(s, p) == InstructionsRun(s, p, PrintRunEnd(s, p))

\* the instructions from i, to ie: at least one character
TailInstructions(d, de, i, ie) ==
    IF ie > i
    THEN [matched |-> TRUE, dStart |-> d, dEnd |-> de, iStart |-> i, iEnd |-> ie]
    ELSE NoMatch

\* (?<description>#[[:print:]]+)(?:\r\n|\n) from d, de the end of the
\* printable run from d + 1: of the lengths of [[:print:]]+ only the whole
\* run can be followed by a line separator
TailDescription(s, d, de, nl) ==
    IF d <= Len(s) /\ s[d] = "#" /\ de > d + 1 /\ nl > 0
    THEN TailInstructions(d, de, de + nl, InstructionsEnd(s, de + nl))
    ELSE NoMatch

TailRun(s, d, de) == TailDescription(s, d, de, NlLen(s, de))

TailSeparator(s, q, nl) ==
    IF nl > 0 THEN TailRun(s, q + nl, PrintRunEnd(s, q + nl + 1)) ELSE NoMatch

\* (?:\r\n|\n)(?<description>#[[:print:]]+)(?:\r\n|\n)(?<instructions>...)
\* from q
TailMatchAt(s, q) == TailSeparator(s, q, NlLen(s, q))

\* the rest with (?<prior_commands>[[:print:]]+)? absent
PriorAbsent(p1, none) ==
    IF none.matched
    THEN [matched |-> TRUE, hasPrior |-> FALSE, pStart |-> p1, pEnd |-> p1, tail |-> none]
    ELSE NoMatch

\* the rest with the group present, then with it absent
PriorPresent(s, p1, pe, with) ==
    IF with.matched
    THEN [matched |-> TRUE, hasPrior |-> TRUE, pStart |-> p1, pEnd |-> pe, tail |-> with]
    ELSE PriorAbsent(p1, TailMatchAt(s, p1))

\* pe is the end of the printable run from p1: of the lengths of
\* [[:print:]]+ only the whole run can be followed by a line separator
PriorRun(s, p1, pe) ==
    PriorPresent(s, p1, pe, IF pe > p1 THEN TailMatchAt(s, pe) ELSE NoMatch)

\* (?<prior_commands>[[:print:]]+)? and the rest from p1: the group present
\* first, then absent
PriorMatchAt(s, p1) == PriorRun(s, p1, PrintRunEnd(s, p1))

AfterNameTaken(s, p, taken) ==
    IF taken.matched THEN taken ELSE PriorMatchAt(s, p)

AfterNameSeparator(s, p, nl) ==
    AfterNameTaken(s, p, IF nl > 0 THEN PriorMatchAt(s, p + nl) ELSE NoMatch)

\* (?:\r\n|\n)? and the rest from p: the separator taken first, then not
AfterNameAt(s, p) == AfterNameSeparator(s, p, NlLen(s, p))

\* (?<name>\[[[:print:]]+]) from st with its closing bracket at k or, failing
\* that, at the nearest one before k: [[:print:]]+ is greedy, so the last
\* bracket of the line is tried first
RECURSIVE NameMatchAt(_, _, _)
NameClosedAt(s, st, k, r) ==
    IF r.matched
    THEN [matched |-> TRUE, start |-> st, nEnd |-> k + 1,
          hasPrior |-> r.hasPrior, pStart |-> r.pStart, pEnd |-> r.pEnd,
          dStart |-> r.tail.dStart, dEnd |-> r.tail.dEnd,
          iStart |-> r.tail.iStart, end |-> r.tail.iEnd]
    ELSE NameMatchAt(s, st, k - 1)

NameMatchAt(s, st, k) ==
    IF k < st + 2 THEN NoMatch
    ELSE NameClosedAt(s, st, k, IF s[k] = "]" THEN AfterNameAt(s, k + 1) ELSE NoMatch)

\* the match of re_commands that starts at st, if any
CommandMatchAt(s, st) ==
    IF s[st] = "[" THEN NameMatchAt(s, st, PrintRunEnd(s, st + 1) - 1) ELSE NoMatch

\* captures_iter: the leftmost match at or after p, then on from its end
RECURSIVE CommandMatches(_, _)
CommandNext(s, m) == <<m>> \o CommandMatches(s, m.end)

CommandFrom(s, starts) ==
    IF starts = {} THEN <<>> ELSE CommandNext(s, CommandMatchAt(s, Leftmost(starts)))

CommandMatches(s, p) == CommandFrom(s, {q \in p..Len(s) : CommandMatchAt(s, q).matched})

(***************************************************************************)
(* str helpers used by parse and Command::to_makefile                      *)
(***************************************************************************)
\* str::trim_start_matches("["): every leading pat removed
RECURSIVE TrimStartMatches(_, _)
TrimStartMatches(s, pat) ==
    IF s # <<>> /\ Head(s) = pat THEN TrimStartMatches(Tail(s), pat) ELSE s

\* str::trim_end_matches("]"): every trailing pat removed
RECURSIVE TrimEndMatches(_, _)
TrimEndMatches(s, pat) ==
    IF s # <<>> /\ s[Len(s)] = pat THEN TrimEndMatches(SubSeq(s, 1, Len(s) - 1), pat) ELSE s

RECURSIVE TrimStart(_)
TrimStart(s) == IF s # <<>> /\ IsWhitespace(Head(s)) THEN TrimStart(Tail(s)) ELSE s

RECURSIVE TrimEnd(_)
TrimEnd(s) ==
    IF s # <<>> /\ IsWhitespace(s[Len(s)]) THEN TrimEnd(SubSeq(s, 1, Len(s) - 1)) ELSE s

\* str::trim
Trim(s) == TrimEnd(TrimStart(s))

\* str::split('\n'): the pieces between the separators, the empty ones too
RECURSIVE SplitFrom(_, _)
SplitAt(s, from, feeds) ==
    IF feeds = {} THEN <<Slice(s, from, Len(s) + 1)>>
    ELSE <<Slice(s, from, Leftmost(feeds))>> \o SplitFrom(s, Leftmost(feeds) + 1)

\* the pieces of s from position from on
SplitFrom(s, from) == SplitAt(s, from, {q \in from..Len(s) : s[q] = LF})

Split(s) == SplitFrom(s, 1)

(***************************************************************************)
(* parse                                                                   *)
(***************************************************************************)
\* the closure of parse that turns one match of re_commands into a Command
ToCommand(s, m) ==
    [name |-> TrimEndMatches(TrimStartMatches(Slice(s, m.start, m.nEnd), "["), "]"),
     prior_commands |-> IF m.hasPrior THEN Slice(s, m.pStart, m.pEnd) ELSE <<>>,
     description |-> Slice(s, m.dStart, m.dEnd),
     instructions |-> Split(Slice(s, m.iStart, m.end))]

\* .map(|c| ...).collect() over the matches ms
CollectIncludes(ms) == [k \in 1..Len(ms) |-> ms[k].include]

CollectCommands(s, ms) == [k \in 1..Len(ms) |-> ToCommand(s, ms[k])]

ParseIncludes(s) == CollectIncludes(IncludeMatches(s, 1))

ParseCommands(s) == CollectCommands(s, CommandMatches(s, 1))

\* parse: (includes, commands)
parse(s) == <<ParseIncludes(s), ParseCommands(s)>>

(***************************************************************************)
(* Command::to_makefile and the buffer of write                            *)
(***************************************************************************)
RECURSIVE Concat(_)
Concat(ss) == IF ss = <<>> THEN <<>> ELSE Head(ss) \o Concat(Tail(ss))

\* format!("\t{}\n", instruction)
InstructionLine(instruction) == <<TAB>> \o instruction \o <<LF>>

\* to_makefile with the description cut but not trimmed
to_makefile_untrimmed(cmd) ==
    <<"#", "#", SP>> \o cmd.name \o <<":", SP>> \o Tail(cmd.description) \o <<LF>>
    \o <<".", "P", "H", "O", "N", "Y", ":", SP>> \o cmd.name \o <<LF>>
    \o cmd.name \o <<":", SP>> \o cmd.prior_commands \o <<LF>>
    \o Concat([k \in 1..Len(cmd.instructions) |-> InstructionLine(cmd.instructions[k])])

\* Command::to_makefile
to_makefile(cmd) ==
    <<"#", "#", SP>> \o cmd.name \o <<":", SP>> \o Trim(Tail(cmd.description)) \o <<LF>>
    \o <<".", "P", "H", "O", "N", "Y", ":", SP>> \o cmd.name \o <<LF>>
    \o cmd.name \o <<":", SP>> \o cmd.prior_commands \o <<LF>>
    \o Concat([k \in 1..Len(cmd.instructions) |-> InstructionLine(cmd.instructions[k])])

\* the text of ../make_helpers, which write embeds; the file is not part of
\* the sources at hand and write never looks into it
make_helpers == <<"h", "e", "l", "p", ":">>

\* chrono::offset::Local::now().format("%d/%m/%Y"): the dates of the model
Dates == {<<"3", "1", "/", "1", "2", "/", "2", "0", "2", "5">>}

ToolLine ==
    <<"#", SP, "T", "h", "i", "s", SP, "M", "a", "k", "e", "f", "i", "l", "e", SP,
      "w", "a", "s", SP, "d", "o", "n", "e", SP, "u", "s", "i", "n", "g", SP,
      "'", "d", "o", "m", "a", "k", "e", "'", LF>>

DateLine(date) ==
    <<"#", SP, "G", "e", "n", "e", "r", "a", "t", "e", "d", SP, "a", "t", SP>> \o date \o <<LF>>

\* format!("include {}\n", include)
IncludeLine(include) == IncludeLit \o include \o <<LF>>

\* the loop of write over the includes
IncludeLines(incs) == Concat([k \in 1..Len(incs) |-> IncludeLine(incs[k])])

\* the loop over the commands run from the last to the first
CommandBlocksReversed(cs) ==
    Concat([k \in 1..Len(cs) |-> to_makefile(cs[Len(cs) + 1 - k]) \o <<LF>>])

\* the loop of write over the commands: format!("{}\n", cmd.to_makefile())
CommandBlocks(cs) == Concat([k \in 1..Len(cs) |-> to_makefile(cs[k]) \o <<LF>>])

\* the buffer write builds
WriteBuffer(incs, cs, date) ==
    ToolLine \o DateLine(date) \o <<LF>>
    \o IncludeLines(incs) \o <<LF>>
    \o make_helpers \o <<LF>> \o <<LF>>
    \o CommandBlocks(cs)

(***************************************************************************)
(* confirm: choice.trim().to_lowercase()                                   *)
(***************************************************************************)
\* char::to_lowercase on the letters of the model
Lower(c) ==
    CASE c = "Y" -> "y"
      [] c = "E" -> "e"
      [] c = "S" -> "s"
      [] c = "N" -> "n"
      [] OTHER -> c

to_lowercase(s) == [k \in 1..Len(s) |-> Lower(s[k])]

\* confirm taking the empty answer for a yes as well
IsYesOrEmpty(answer) ==
    to_lowercase(Trim(answer)) \in {<<>>, <<"y">>, <<"y", "e", "s">>}

\* the answers confirm takes for a yes
IsYes(answer) ==
    to_lowercase(Trim(answer)) \in {<<"y">>, <<"y", "e", "s">>}

(***************************************************************************)
(* The inputs of the model                                                 *)
(***************************************************************************)
\* the fragments a Dofile of the model is made of
Parts ==
    {<<"[", "a", "]", LF>>,                      \* a header
     <<SP, "b", LF>>,                            \* a line of text
     <<"#", SP, "d", SP, LF>>,                   \* a description
     <<LF>>,                                     \* a blank line
     <<"i", "n", "c", "l", "u", "d", "e", SP, "m", LF>>,
     <<"y">>,                                    \* text with no line separator
     \* a whole block with CRLF separators, closed by a blank line
     <<"[", "b", "]", CR, LF, SP, "c", SP, CR, LF, "#", SP, "e", SP, CR, LF,
       "i", "n", "c", "l", "u", "d", "e", SP, "n", CR, LF, "x", CR, LF, CR, LF>>}

\* the Dofiles the runs of main read
MinimalDoc ==
    <<"i", "n", "c", "l", "u", "d", "e", SP, "m", LF,
      "[", "a", "]", LF, "#", SP, "d", SP, LF, SP, "b", LF>>

SampleDocs == {<<>>, MinimalDoc, <<"[", "a", "]", LF>>}

\* args().skip(1)
ArgVectors ==
    {<<>>, <<"-v">>, <<"--version">>, <<"-h">>, <<"--help">>, <<"-x">>, <<"-v", "-h">>}

\* the lines read_line can give: with and without separator, end of input
StdinLines ==
    {<<"y", LF>>, <<"y", "e", "s", LF>>, <<SP, "Y", "E", "S", SP, CR, LF>>, <<"Y">>,
     <<"n", LF>>, <<"n", "o", LF>>, <<"y", "y", LF>>, <<LF>>, <<>>}

\* a Makefile left by an earlier run
OldMakefile == <<"o", "l", "d", LF>>

(***************************************************************************)
(* State                                                                   *)
(***************************************************************************)
VARIABLES
    pc,        \* where main stands
    args,      \* the arguments of the run
    makefile,  \* the file Makefile: [exists, data]
    choice,    \* the String confirm reads the answer into
    content,   \* the Dofile as read: <<>> before, <<text>> after
    includes,  \* parse's includes
    cmds,      \* parse's commands
    printed,   \* the messages printed so far
    status     \* <<>> while running, <<code>> once the process has exited

vars == <<pc, args, makefile, choice, content, includes, cmds, printed, status>>

Exit(code) == pc' = "exit" /\ status' = <<code>>

\* error: prints the message and the usage, exit(1)
error(err) == printed' = Append(printed, "Error: " \o err) /\ Exit(1)

\* main, lines 43-53: the dispatch on the arguments
MainArgs ==
    /\ pc = "main"
    /\ \/ /\ args = <<>>
          /\ pc' = "is_makefile"
          /\ UNCHANGED <<printed, status>>
       \/ /\ Len(args) > 1
          /\ error("Too many arguments")
       \/ /\ Len(args) = 1
          /\ args[1] \in {"-v", "--version"}
          /\ printed' = Append(printed, "domake version")
          /\ Exit(0)
       \/ /\ Len(args) = 1
          /\ args[1] \in {"-h", "--help"}
          /\ printed' = Append(printed, "description, usage")
          /\ Exit(0)
       \/ /\ Len(args) = 1
          /\ args[1] \notin {"-v", "--version", "-h", "--help"}
          /\ error("Wrong argument")
    /\ UNCHANGED <<args, makefile, choice, content, includes, cmds>>

\* is_makefile: fs::exists("Makefile").unwrap(); Err when the existence can
\* be neither confirmed nor denied, and unwrap then panics (exit status 101)
IsMakefile ==
    /\ pc = "is_makefile"
    /\ \/ /\ makefile.exists
          /\ pc' = "confirm"
          /\ UNCHANGED <<printed, status>>
       \/ /\ ~makefile.exists
          /\ pc' = "read_file"
          /\ UNCHANGED <<printed, status>>
       \/ /\ printed' = Append(printed, "panicked: called Result::unwrap() on an Err value")
          /\ Exit(101)
    /\ UNCHANGED <<args, makefile, choice, content, includes, cmds>>

\* confirm, and main's exit(0) when it returns false
Confirm ==
    /\ pc = "confirm"
    /\ \/ /\ error("Failed to read input from stdin")
          /\ UNCHANGED choice
       \/ \E line \in StdinLines :
             /\ choice' = line
             /\ IF IsYes(line)
                THEN pc' = "read_file" /\ UNCHANGED status
                ELSE Exit(0)
             /\ UNCHANGED printed
    /\ UNCHANGED <<args, makefile, content, includes, cmds>>

\* read_file and the Err arm of main
ReadFile ==
    /\ pc = "read_file"
    /\ \/ /\ printed' = printed \o <<"No 'Dofile' found in directory", "Error: entity not found">>
          /\ Exit(1)
          /\ UNCHANGED content
       \/ /\ error("permission denied")
          /\ UNCHANGED content
       \/ \E text \in SampleDocs :
             /\ content' = <<text>>
             /\ printed' = Append(printed, "-> Dofile found")
             /\ pc' = "parse"
             /\ UNCHANGED status
    /\ UNCHANGED <<args, makefile, choice, includes, cmds>>

\* let (includes, cmds) = parse(content)
Parse ==
    /\ pc = "parse"
    /\ includes' = parse(content[1])[1]
    /\ cmds' = parse(content[1])[2]
    /\ printed' = Append(printed, "-> Content parsed")
    /\ pc' = "write"
    /\ UNCHANGED <<args, makefile, choice, content, status>>

\* write and the match on its result, then the exit(0) that ends main
Write ==
    /\ pc = "write"
    /\ \/ \* File::create fails
          /\ UNCHANGED makefile
          /\ printed' = Append(printed, "Error writing to file!")
          /\ Exit(2)
       \/ \* File::create has truncated the file and write_all fails
          /\ makefile' = [exists |-> TRUE, data |-> <<>>]
          /\ printed' = Append(printed, "Error writing to file!")
          /\ Exit(2)
       \/ \E date \in Dates :
             /\ makefile' = [exists |-> TRUE, data |-> WriteBuffer(includes, cmds, date)]
             /\ printed' = Append(printed, "-> Makefile successfully created!")
             /\ Exit(0)
    /\ UNCHANGED <<args, choice, content, includes, cmds>>

Init ==
    /\ pc = "main"
    /\ args \in ArgVectors
    /\ makefile \in {[exists |-> FALSE, data |-> <<>>], [exists |-> TRUE, data |-> OldMakefile]}
    /\ choice = <<>>
    /\ content = <<>>
    /\ includes = <<>>
    /\ cmds = <<>>
    /\ printed = <<>>
    /\ status = <<>>

Next == MainArgs \/ IsMakefile \/ Confirm \/ ReadFile \/ Parse \/ Write

Spec == Init /\ [][Next]_vars

(***************************************************************************)
(* parse and write on every Dofile of the model: the Dofile has been read  *)
(***************************************************************************)
InitParse ==
    /\ pc = "parse"
    /\ args = <<>>
    /\ makefile = [exists |-> FALSE, data |-> <<>>]
    /\ choice = <<>>
    /\ \E n \in 0..MaxParts : \E parts \in [1..n -> Parts] : content = <<Concat(parts)>>
    /\ includes = <<>>
    /\ cmds = <<>>
    /\ printed = <<"-> Dofile found">>
    /\ status = <<>>

NextParse == Parse \/ Write

SpecParse == InitParse /\ [][NextParse]_vars

(***************************************************************************)
(* Vocabulary of the properties                                            *)
(***************************************************************************)
\* the lines of a text: the pieces between line feeds, without the carriage
\* return of a CRLF separator
StripCR(l) == IF l # <<>> /\ l[Len(l)] = CR THEN SubSeq(l, 1, Len(l) - 1) ELSE l

DocLines(s) == [k \in 1..Len(Split(s)) |-> StripCR(Split(s)[k])]

\* a bracket-header: a line that ends with [name]
IsHeaderLine(l) ==
    /\ l # <<>>
    /\ l[Len(l)] = "]"
    /\ \E i \in 1..(Len(l) - 2) : l[i] = "["

StartsWithHash(l) == l # <<>> /\ l[1] = "#"

\* the header at line h is followed, possibly after one line that does not
\* start with '#', by a line starting with '#' and then a non-blank line
HeaderWithBody(L, h) ==
    /\ IsHeaderLine(L[h])
    /\ \/ /\ h + 2 <= Len(L)
          /\ StartsWithHash(L[h + 1])
          /\ L[h + 2] # <<>>
       \/ /\ h + 3 <= Len(L)
          /\ ~StartsWithHash(L[h + 1])
          /\ StartsWithHash(L[h + 2])
          /\ L[h + 3] # <<>>

\* parse has returned
Parsed == pc \in {"write", "exit"} /\ content # <<>>

\* the matches of the two regexes in the Dofile read
TheIncludeMatches == IncludeMatches(content[1], 1)

TheCommandMatches == CommandMatches(content[1], 1)

\* the lines of the Dofile from position p up to, and excluding, the first
\* blank line or bracket-header line
RECURSIVE BlockLines(_)
BlockLines(L) ==
    IF L = <<>> \/ Head(L) = <<>> \/ IsHeaderLine(Head(L)) THEN <<>>
    ELSE <<Head(L)>> \o BlockLines(Tail(L))

IsNonEmpty(l) == l # <<>>

\* the Makefile written, line by line
MakefileLines == Split(makefile.data)

Written == pc = "exit" /\ status = <<0>> /\ content # <<>> /\ makefile.exists

(***************************************************************************)
(* C1: the number of Commands parse returns equals the number of           *)
(* bracket-headers of the document that are followed (possibly after one   *)
(* line not starting with '#') by a line starting with '#' and then a      *)
(* non-blank line; k blocks written back to back give k Commands.          *)
(***************************************************************************)
C1_CommandCount ==
    Parsed =>
        Len(cmds) = Cardinality({h \in 1..Len(DocLines(content[1])) :
                                    HeaderWithBody(DocLines(content[1]), h)})

(***************************************************************************)
(* C2: the Makefile changes only in a run without arguments in which the   *)
(* Dofile was read and, if a Makefile existed, the answer was y or yes     *)
(* (in any case, surrounding whitespace aside); an answer that is not a    *)
(* yes ends the run with the Dofile unread and the Makefile as it was, and *)
(* nothing happens after the exit.                                         *)
(***************************************************************************)
YesAnswers ==
    {<<"y", LF>>, <<"y", "e", "s", LF>>, <<SP, "Y", "E", "S", SP, CR, LF>>, <<"Y">>}

C2_MakefileGuarded ==
    [][/\ makefile' # makefile =>
            /\ pc = "write"
            /\ args = <<>>
            /\ content # <<>>
            /\ makefile.exists => choice \in YesAnswers
       /\ (pc = "confirm" /\ choice' \notin YesAnswers) =>
            /\ pc' = "exit"
            /\ content' = <<>>
            /\ cmds' = <<>>
            /\ makefile' = makefile
       /\ pc # "exit"]_vars

\* an existing Makefile has been overwritten after a yes
C2_Witness ==
    /\ Written
    /\ choice \in YesAnswers
    /\ makefile.data # OldMakefile

(***************************************************************************)
(* C3: every run ends with exit code 0, 1 or 2: 0 when the Makefile was    *)
(* written, the overwrite was declined, or for -h and -v; 1 for wrong or   *)
(* too many arguments and when reading the Dofile fails; 2 when creating   *)
(* or writing the Makefile fails, and for nothing else.                    *)
(***************************************************************************)
LastPrinted == printed[Len(printed)]

C3_ExitCodes ==
    pc = "exit" =>
        /\ status \in {<<0>>, <<1>>, <<2>>}
        /\ (args # <<>> /\ (Len(args) > 1 \/ args[1] \notin {"-v", "--version", "-h", "--help"}))
              => status = <<1>>
        /\ (Len(args) = 1 /\ args[1] \in {"-v", "--version", "-h", "--help"})
              => status = <<0>>
        /\ (args = <<>> /\ choice # <<>> /\ choice \notin YesAnswers) => status = <<0>>
        /\ (printed # <<>> /\ LastPrinted = "-> Makefile successfully created!")
              => status = <<0>>
        /\ (printed # <<>> /\ LastPrinted \in {"Error: entity not found", "Error: permission denied"})
              => status = <<1>>
        /\ status = <<2>> <=> (printed # <<>> /\ LastPrinted = "Error writing to file!")

(***************************************************************************)
(* C4: the includes and the Commands come out of parse in the order of     *)
(* their matches in the Dofile and are written in that order, none         *)
(* reordered, duplicated or dropped; every include line precedes the       *)
(* boilerplate, which precedes every Command block.                        *)
(***************************************************************************)
IsIncludeLine(l) == LitAt(l, 1, IncludeLit)

IsPhonyLine(l) == LitAt(l, 1, <<".", "P", "H", "O", "N", "Y", ":", SP>>)

IsTabLine(l) == l # <<>> /\ l[1] = TAB

IsHelpersLine(l) == l = make_helpers

\* the instruction entries of the commands cs, one after the other
RECURSIVE AllInstructions(_)
AllInstructions(cs) ==
    IF cs = <<>> THEN <<>> ELSE Head(cs).instructions \o AllInstructions(Tail(cs))

\* the includes incs and the commands cs are those of the matches im and cm
\* of the Dofile s, which stand in the order of their positions
ParsedInOrder(s, im, cm, incs, cs) ==
    /\ Len(incs) = Len(im)
    /\ Len(cs) = Len(cm)
    /\ \A k \in 1..Len(im) :
          /\ incs[k] = Slice(s, im[k].start + Len(IncludeLit), im[k].end)
          /\ k > 1 => im[k - 1].start < im[k].start
    /\ \A k \in 1..Len(cm) :
          /\ cs[k].description = Slice(s, cm[k].dStart, cm[k].dEnd)
          /\ cs[k].instructions = Split(Slice(s, cm[k].iStart, cm[k].end))
          /\ k > 1 => cm[k - 1].start < cm[k].start

\* the lines out hold the includes incs, then the boilerplate, then the
\* commands cs with the instruction entries ins, each in its order
WrittenInOrder(out, incs, cs, ins) ==
    /\ SelectSeq(out, IsIncludeLine) = [k \in 1..Len(incs) |-> IncludeLit \o incs[k]]
    /\ SelectSeq(out, IsPhonyLine)
          = [k \in 1..Len(cs) |-> <<".", "P", "H", "O", "N", "Y", ":", SP>> \o cs[k].name]
    /\ SelectSeq(out, IsTabLine) = [k \in 1..Len(ins) |-> <<TAB>> \o ins[k]]
    /\ Len(SelectSeq(out, IsHelpersLine)) = 1
    /\ \A h \in 1..Len(out) :
          IsHelpersLine(out[h]) =>
             /\ \A i \in 1..h : ~IsPhonyLine(out[i]) /\ ~IsTabLine(out[i])
             /\ \A i \in h..Len(out) : ~IsIncludeLine(out[i])

C4_OrderPreserved ==
    Written =>
        /\ ParsedInOrder(content[1], TheIncludeMatches, TheCommandMatches, includes, cmds)
        /\ WrittenInOrder(MakefileLines, includes, cmds, AllInstructions(cmds))

\* a Makefile written from two distinct includes and two distinct Commands
C4_Witness ==
    /\ Written
    /\ Len(includes) >= 2
    /\ includes[1] # includes[2]
    /\ Len(cmds) >= 2
    /\ cmds[1].name # cmds[2].name
    /\ \A k \in 1..Len(cmds) :
          /\ ~IsHeaderLine(cmds[k].prior_commands)
          /\ \A j \in 1..Len(cmds[k].instructions) :
                ~IsHeaderLine(StripCR(cmds[k].instructions[j]))

(***************************************************************************)
(* C5: to_makefile gives the line `## <name>: <description without its     *)
(* leading '#', surrounding whitespace trimmed>`, then `.PHONY: <name>`,   *)
(* then `<name>: <dependency token>`, then one line per instruction entry  *)
(* in stored order, a tab followed by the entry unchanged; every line ends *)
(* with one newline and there is nothing else.                             *)
(***************************************************************************)
\* d is text without its first character and without surrounding whitespace
IsTrimmedBody(d, text) ==
    \E i \in 2..(Len(text) + 1) : \E j \in (i - 1)..Len(text) :
        /\ d = SubSeq(text, i, j)
        /\ \A k \in 2..(i - 1) : IsWhitespace(text[k])
        /\ \A k \in (j + 1)..Len(text) : IsWhitespace(text[k])
        /\ d # <<>> => ~IsWhitespace(d[1]) /\ ~IsWhitespace(d[Len(d)])

\* the text of line after the prefix, when line starts with it
HasPrefix(line, prefix) == LitAt(line, 1, prefix)

RenderedAsClaimed(cmd, lines) ==
    /\ Len(lines) = 3 + Len(cmd.instructions) + 1
    /\ lines[Len(lines)] = <<>>
    /\ HasPrefix(lines[1], <<"#", "#", SP>> \o cmd.name \o <<":", SP>>)
    /\ IsTrimmedBody(SubSeq(lines[1], Len(cmd.name) + 6, Len(lines[1])), cmd.description)
    /\ lines[2] = <<".", "P", "H", "O", "N", "Y", ":", SP>> \o cmd.name
    /\ lines[3] = cmd.name \o <<":", SP>> \o cmd.prior_commands
    /\ \A j \in 1..Len(cmd.instructions) : lines[3 + j] = <<TAB>> \o cmd.instructions[j]

C5_ToMakefileFormat ==
    Parsed => \A k \in 1..Len(cmds) : RenderedAsClaimed(cmds[k], Split(to_makefile(cmds[k])))

\* a Command with a dependency token, a description to trim and two
\* instruction lines
C5_Witness ==
    /\ Parsed
    /\ \E k \in 1..Len(cmds) :
          /\ cmds[k].prior_commands # <<>>
          /\ Len(cmds[k].instructions) >= 3
          /\ cmds[k].description[2] = SP
          /\ cmds[k].description[Len(cmds[k].description)] = SP
          /\ \A j \in 1..Len(cmds[k].instructions) :
                ~IsHeaderLine(StripCR(cmds[k].instructions[j]))

(***************************************************************************)
(* C6: a line starting with '#' is never captured as the dependency token: *)
(* when the line after the header starts with '#', the token is empty and  *)
(* that line is the description.                                           *)
(***************************************************************************)
C6_HashLineIsDescription ==
    Parsed => \A k \in 1..Len(cmds) :
        /\ ~StartsWithHash(cmds[k].prior_commands)
        /\ StartsWithHash(cmds[k].description)

(***************************************************************************)
(* C7: parse yields a Command only for a header with a description line    *)
(* and at least one instruction line of its own: neither the line taken as *)
(* its dependencies nor the first line taken as its instructions is the    *)
(* header of another block.                                                *)
(***************************************************************************)
C7_OwnDescriptionAndInstruction ==
    Parsed => \A k \in 1..Len(cmds) :
        /\ ~IsHeaderLine(cmds[k].prior_commands)
        /\ cmds[k].instructions # <<>>
        /\ ~IsHeaderLine(StripCR(cmds[k].instructions[1]))

(***************************************************************************)
(* C8: the instruction entries of a Command are the lines after its        *)
(* description up to, and excluding, the first blank line, the next        *)
(* bracket-header line or the end of the document (an entry that is empty  *)
(* is left aside here: it is the matter of C9).                            *)
(***************************************************************************)
C8_InstructionsStopAtHeader ==
    Parsed => \A k \in 1..Len(cmds) :
        SelectSeq(DocLines(Concat([j \in 1..Len(cmds[k].instructions) |->
                                      cmds[k].instructions[j] \o <<LF>>])), IsNonEmpty)
          = BlockLines(DocLines(Slice(content[1], TheCommandMatches[k].iStart,
                                      Len(content[1]) + 1)))

(***************************************************************************)
(* C9: no Command holds an empty instruction entry, so no rendered line is *)
(* a tab alone.                                                            *)
(***************************************************************************)
C9_NoEmptyInstruction ==
    Parsed => \A k \in 1..Len(cmds) :
        /\ \A j \in 1..Len(cmds[k].instructions) : cmds[k].instructions[j] # <<>>
        /\ \A j \in 1..Len(Split(to_makefile(cmds[k]))) :
              Split(to_makefile(cmds[k]))[j] # <<TAB>>

(***************************************************************************)
(* C10: the dependency token is the dependencies line without leading and  *)
(* trailing whitespace, and empty when there is no such line: no token     *)
(* starts or ends with a space.                                            *)
(***************************************************************************)
C10_DependencyTrimmed ==
    Parsed => \A k \in 1..Len(cmds) :
        /\ cmds[k].prior_commands # <<>> =>
              /\ cmds[k].prior_commands[1] # SP
              /\ cmds[k].prior_commands[Len(cmds[k].prior_commands)] # SP
        /\ TheCommandMatches[k].hasPrior
              => IsTrimmedBody(cmds[k].prior_commands,
                               <<SP>> \o Slice(content[1], TheCommandMatches[k].pStart,
                                               TheCommandMatches[k].pEnd))
        /\ ~TheCommandMatches[k].hasPrior => cmds[k].prior_commands = <<>>
====
